---- MODULE Spec2Model ----
(***************************************************************************)
(* HexCrypto: the XOR / rotate / salt cipher that hides short texts in     *)
(* the data field of a transaction, with its hex encoding and its 0xENC1   *)
(* chain tag.                                                              *)
(*                                                                         *)
(* A JavaScript string is a sequence of UTF-16 code units (numbers in      *)
(* 0..65535), a Buffer a sequence of bytes (numbers in 0..255).  Position  *)
(* i of the source (counted from 0) is index i + 1 here.                   *)
(*                                                                         *)
(* readChainData: the script that picks the first RPC endpoint that        *)
(* answers and reads the chain through it.                                 *)
(***************************************************************************)
EXTENDS Integers, Sequences, FiniteSets, Bags, TLC

VARIABLES key, msgs, call,
          rpcUrls, provider, pc, urlIndex, attempts, step, reads, error

\* the variables of readChainData
chainVars == <<rpcUrls, provider, pc, urlIndex, attempts, step, reads, error>>

vars == <<key, msgs, call, chainVars>>

(***************************************************************************)
(* Bit operations of JavaScript on small non-negative numbers.             *)
(***************************************************************************)
Pow2(n) == 2 ^ n

RECURSIVE BitXor(_, _)
BitXor(a, b) ==
    IF a = 0 THEN b
    ELSE IF b = 0 THEN a
    ELSE (((a % 2) + (b % 2)) % 2) + 2 * BitXor(a \div 2, b \div 2)

RECURSIVE BitOr(_, _)
BitOr(a, b) ==
    IF a = 0 THEN b
    ELSE IF b = 0 THEN a
    ELSE (IF a % 2 = 1 \/ b % 2 = 1 THEN 1 ELSE 0) + 2 * BitOr(a \div 2, b \div 2)

RECURSIVE BitAnd(_, _)
BitAnd(a, b) ==
    IF a = 0 \/ b = 0 THEN 0
    ELSE ((a % 2) * (b % 2)) + 2 * BitAnd(a \div 2, b \div 2)

ShiftLeft(a, n) == a * Pow2(n)

ShiftRight(a, n) == a \div Pow2(n)

(***************************************************************************)
(* SHA-256 (FIPS 180-4), the digest behind crypto.createHash('sha256').    *)
(* A 32-bit word is the pair <<high 16 bits, low 16 bits>>.                *)
(***************************************************************************)
WXor(a, b) == <<BitXor(a[1], b[1]), BitXor(a[2], b[2])>>

WAnd(a, b) == <<BitAnd(a[1], b[1]), BitAnd(a[2], b[2])>>

WNot(a) == <<65535 - a[1], 65535 - a[2]>>

\* rotation to the right by n bits, 0 <= n < 32
Rotr(w, n) ==
    LET hi == IF n < 16 THEN w[1] ELSE w[2]
        lo == IF n < 16 THEN w[2] ELSE w[1]
        k == n % 16
    IN  <<(hi \div Pow2(k)) + ((lo % Pow2(k)) * Pow2(16 - k)),
          (lo \div Pow2(k)) + ((hi % Pow2(k)) * Pow2(16 - k))>>

\* shift to the right by n bits, 0 <= n < 16
Shr(w, n) ==
    <<w[1] \div Pow2(n), (w[2] \div Pow2(n)) + ((w[1] % Pow2(n)) * Pow2(16 - n))>>

\* addition modulo 2^32
WAdd(a, b) ==
    LET lo == a[2] + b[2]
        hi == a[1] + b[1] + (lo \div 65536)
    IN  <<hi % 65536, lo % 65536>>

ShaK ==
    << <<17034, 12184>>, <<28983, 17553>>, <<46528, 64463>>, <<59829, 56229>>,
       <<14678, 49755>>, <<23025, 4593>>, <<37439, 33444>>, <<43804, 24277>>,
       <<55303, 43672>>, <<4739, 23297>>, <<9265, 34238>>, <<21772, 32195>>,
       <<29374, 23924>>, <<32990, 45566>>, <<39900, 1703>>, <<49563, 61812>>,
       <<58523, 27073>>, <<61374, 18310>>, <<4033, 40390>>, <<9228, 41420>>,
       <<11753, 11375>>, <<19060, 33962>>, <<23728, 43484>>, <<30457, 35034>>,
       <<38974, 20818>>, <<43057, 50797>>, <<45059, 10184>>, <<48985, 32711>>,
       <<50912, 3059>>, <<54695, 37191>>, <<1738, 25425>>, <<5161, 10599>>,
       <<10167, 2693>>, <<11803, 8504>>, <<19756, 28156>>, <<21304, 3347>>,
       <<25866, 29524>>, <<30314, 2747>>, <<33218, 51502>>, <<37490, 11397>>,
       <<41663, 59553>>, <<43034, 26187>>, <<49739, 35696>>, <<51052, 20899>>,
       <<53650, 59417>>, <<54937, 1572>>, <<62478, 13701>>, <<4202, 41072>>,
       <<6564, 49430>>, <<7735, 27656>>, <<10056, 30540>>, <<13488, 48309>>,
       <<14620, 3251>>, <<20184, 43594>>, <<23452, 51791>>, <<26670, 28659>>,
       <<29839, 33518>>, <<30885, 25455>>, <<33992, 30740>>, <<36039, 520>>,
       <<37054, 65530>>, <<42064, 27883>>, <<48889, 41975>>, <<50801, 30962>> >>

ShaH0 ==
    << <<27145, 58983>>, <<47975, 44677>>, <<15470, 62322>>, <<42319, 62778>>,
       <<20750, 21119>>, <<39685, 26764>>, <<8067, 55723>>, <<23520, 52505>> >>

\* n zero bytes
Zeros(n) == [i \in 1..n |-> 0]

\* the message, 0x80, zero bytes up to 56 modulo 64, and the bit length on 8 bytes
ShaPad(bytes) ==
    LET n == Len(bytes)
        z == (119 - (n % 64)) % 64
        bits == 8 * n
    IN  bytes \o <<128>> \o Zeros(z) \o Zeros(5)
          \o <<(bits \div 65536) % 256, (bits \div 256) % 256, (bits % 256)>>

\* word t (0..15) of the 64-byte block that starts after byte `off`
ShaBlockWord(m, off, t) ==
    <<m[off + 4 * t + 1] * 256 + m[off + 4 * t + 2],
      m[off + 4 * t + 3] * 256 + m[off + 4 * t + 4]>>

SmallSigma0(x) == WXor(WXor(Rotr(x, 7), Rotr(x, 18)), Shr(x, 3))

SmallSigma1(x) == WXor(WXor(Rotr(x, 17), Rotr(x, 19)), Shr(x, 10))

BigSigma0(x) == WXor(WXor(Rotr(x, 2), Rotr(x, 13)), Rotr(x, 22))

BigSigma1(x) == WXor(WXor(Rotr(x, 6), Rotr(x, 11)), Rotr(x, 25))

Ch(x, y, z) == WXor(WAnd(x, y), WAnd(WNot(x), z))

Maj(x, y, z) == WXor(WXor(WAnd(x, y), WAnd(x, z)), WAnd(y, z))

\* the message schedule: w holds words 0..Len(w)-1, extended up to 64 words
RECURSIVE ShaSchedule(_)
ShaSchedule(w) ==
    IF Len(w) = 64 THEN w
    ELSE LET t == Len(w) + 1
             next == WAdd(WAdd(SmallSigma1(w[t - 2]), w[t - 7]),
                          WAdd(SmallSigma0(w[t - 15]), w[t - 16]))
         IN  ShaSchedule(Append(w, next))

\* rounds t..64 on the working variables s = <<a, b, c, d, e, f, g, h>>
RECURSIVE ShaRounds(_, _, _)
ShaRounds(s, w, t) ==
    IF Len(s) # 8 \/ t > 64 THEN s
    ELSE LET t1 == WAdd(WAdd(WAdd(s[8], BigSigma1(s[5])), Ch(s[5], s[6], s[7])),
                        WAdd(ShaK[t], w[t]))
             t2 == WAdd(BigSigma0(s[1]), Maj(s[1], s[2], s[3]))
         IN  ShaRounds(<<WAdd(t1, t2), s[1], s[2], s[3],
                         WAdd(s[4], t1), s[5], s[6], s[7]>>, w, t + 1)

\* the hash value after the blocks from offset `off` on
RECURSIVE ShaBlocks(_, _, _)
ShaBlocks(h, m, off) ==
    IF Len(h) # 8 \/ off >= Len(m) THEN h
    ELSE LET w == ShaSchedule([t \in 1..16 |-> ShaBlockWord(m, off, t - 1)])
             s == ShaRounds(h, w, 1)
         IN  ShaBlocks([i \in 1..8 |-> WAdd(h[i], s[i])], m, off + 64)

\* the 32 bytes of the digest, most significant byte of each word first
Sha256(bytes) ==
    LET h == ShaBlocks(ShaH0, ShaPad(bytes), 0)
    IN  [i \in 1..32 |->
            LET half == h[((i - 1) \div 4) + 1][(((i - 1) % 4) \div 2) + 1]
            IN  IF i % 2 = 1 THEN half \div 256 ELSE half % 256]

(***************************************************************************)
(* Strings and buffers.                                                    *)
(***************************************************************************)
\* s.startsWith(p)
StartsWith(s, p) == Len(s) >= Len(p) /\ SubSeq(s, 1, Len(p)) = p

\* s.slice(n), and buf.subarray(n), for n >= 0
Slice(s, n) == SubSeq(s, n + 1, Len(s))

\* buf.subarray(0, n)
Subarray0(buf, n) == SubSeq(buf, 1, IF n < Len(buf) THEN n ELSE Len(buf))

IsHighSurrogate(c) == c >= 55296 /\ c <= 56319

IsLowSurrogate(c) == c >= 56320 /\ c <= 57343

\* Buffer.from(str, 'utf8'): a surrogate pair gives four bytes, a lone
\* surrogate the three bytes of U+FFFD
RECURSIVE Utf8Encode(_)
Utf8Encode(str) ==
    IF str = <<>> THEN <<>>
    ELSE LET c == Head(str)
         IN  IF c < 128 THEN <<c>> \o Utf8Encode(Tail(str))
             ELSE IF c < 2048
               THEN <<192 + (c \div 64), 128 + (c % 64)>> \o Utf8Encode(Tail(str))
             ELSE IF IsHighSurrogate(c) /\ Len(str) >= 2 /\ IsLowSurrogate(str[2])
               THEN LET cp == 65536 + ((c - 55296) * 1024) + (str[2] - 56320)
                    IN  <<240 + (cp \div 262144), 128 + ((cp \div 4096) % 64),
                          128 + ((cp \div 64) % 64), 128 + (cp % 64)>>
                          \o Utf8Encode(Tail(Tail(str)))
             ELSE IF IsHighSurrogate(c) \/ IsLowSurrogate(c)
               THEN <<239, 191, 189>> \o Utf8Encode(Tail(str))
             ELSE <<224 + (c \div 4096), 128 + ((c \div 64) % 64), 128 + (c % 64)>>
                    \o Utf8Encode(Tail(str))

\* buf.toString('utf8') from index i on: every maximal ill-formed part is
\* replaced by U+FFFD (65533); no input makes it throw
RECURSIVE Utf8DecodeFrom(_, _)
Utf8DecodeFrom(buf, i) ==
    IF i > Len(buf) THEN <<>>
    ELSE LET c == buf[i]
             need == IF c < 128 THEN 0
                     ELSE IF c >= 194 /\ c <= 223 THEN 1
                     ELSE IF c >= 224 /\ c <= 239 THEN 2
                     ELSE IF c >= 240 /\ c <= 244 THEN 3
                     ELSE -1
             lower == IF c = 224 THEN 160 ELSE IF c = 240 THEN 144 ELSE 128
             upper == IF c = 237 THEN 159 ELSE IF c = 244 THEN 143 ELSE 191
             ok1 == i + 1 <= Len(buf) /\ buf[i + 1] >= lower /\ buf[i + 1] <= upper
             ok2 == i + 2 <= Len(buf) /\ buf[i + 2] >= 128 /\ buf[i + 2] <= 191
             ok3 == i + 3 <= Len(buf) /\ buf[i + 3] >= 128 /\ buf[i + 3] <= 191
         IN  IF need = 0 THEN <<c>> \o Utf8DecodeFrom(buf, i + 1)
             ELSE IF need = -1 \/ ~ok1 THEN <<65533>> \o Utf8DecodeFrom(buf, i + 1)
             ELSE IF need = 1
               THEN <<((c - 192) * 64) + (buf[i + 1] - 128)>> \o Utf8DecodeFrom(buf, i + 2)
             ELSE IF ~ok2 THEN <<65533>> \o Utf8DecodeFrom(buf, i + 2)
             ELSE IF need = 2
               THEN <<((c - 224) * 4096) + ((buf[i + 1] - 128) * 64) + (buf[i + 2] - 128)>>
                      \o Utf8DecodeFrom(buf, i + 3)
             ELSE IF ~ok3 THEN <<65533>> \o Utf8DecodeFrom(buf, i + 3)
             ELSE LET cp == ((c - 240) * 262144) + ((buf[i + 1] - 128) * 4096)
                              + ((buf[i + 2] - 128) * 64) + (buf[i + 3] - 128) - 65536
                  IN  <<55296 + (cp \div 1024), 56320 + (cp % 1024)>>
                        \o Utf8DecodeFrom(buf, i + 4)

Utf8Decode(buf) == Utf8DecodeFrom(buf, 1)

\* HexDigit with the letters in uppercase
HexDigitUpper(d) == IF d < 10 THEN 48 + d ELSE 55 + d

\* the character of a hex digit 0..15, in lowercase
HexDigit(d) == IF d < 10 THEN 48 + d ELSE 87 + d

\* buf.toString('hex')
HexEncode(buf) ==
    [j \in 1..(2 * Len(buf)) |->
        LET b == buf[(j + 1) \div 2]
        IN  IF j % 2 = 1 THEN HexDigit(b \div 16) ELSE HexDigit(b % 16)]

\* the value of a hex digit character of either case, -1 for any other character
Unhex(c) ==
    IF c >= 48 /\ c <= 57 THEN c - 48
    ELSE IF c >= 65 /\ c <= 70 THEN c - 55
    ELSE IF c >= 97 /\ c <= 102 THEN c - 87
    ELSE -1

\* Buffer.from(hex, 'hex') from byte n (counted from 0) on: the string holds
\* Len(hex) >>> 1 byte places and decoding stops, without an error, at the
\* first pair that is not two hex digits
RECURSIVE HexDecodeFrom(_, _)
HexDecodeFrom(hex, n) ==
    IF n >= Len(hex) \div 2 THEN <<>>
    ELSE LET a == Unhex(hex[(2 * n) + 1])
             b == Unhex(hex[(2 * n) + 2])
         IN  IF a = -1 \/ b = -1 THEN <<>>
             ELSE <<(a * 16) + b>> \o HexDecodeFrom(hex, n + 1)

HexDecode(hex) == HexDecodeFrom(hex, 0)

(***************************************************************************)
(* HexCrypto.                                                              *)
(***************************************************************************)
SaltLen == 8

Str0x == <<48, 120>>

StrChainTag == <<48, 120, 69, 78, 67, 49>>

\* constructor: the key is the SHA-256 digest of the UTF-8 bytes of the secret
deriveKey(secretKey) == Sha256(Utf8Encode(secretKey))

\* encryptByte whose shift runs over 0..6
encryptByteShiftFromZero(k, salt, plaintextBuffer, i) ==
    LET byte1 == BitXor(plaintextBuffer[i + 1], k[(i % Len(k)) + 1])
        byte2 == BitXor(byte1, salt[(i % Len(salt)) + 1])
        shift == i % 7
    IN  BitAnd(BitOr(ShiftLeft(byte2, shift), ShiftRight(byte2, 8 - shift)), 255)

\* one pass of the loop of encrypt, at position i (from 0)
encryptByte(k, salt, plaintextBuffer, i) ==
    LET byte1 == BitXor(plaintextBuffer[i + 1], k[(i % Len(k)) + 1])
        byte2 == BitXor(byte1, salt[(i % Len(salt)) + 1])
        shift == (i % 7) + 1
    IN  BitAnd(BitOr(ShiftLeft(byte2, shift), ShiftRight(byte2, 8 - shift)), 255)

\* the buffer `encrypted` of encrypt
encryptBuffer(k, salt, plaintextBuffer) ==
    [j \in 1..Len(plaintextBuffer) |-> encryptByte(k, salt, plaintextBuffer, j - 1)]

\* encode that leaves the salt out
encodeWithoutSalt(salt, encrypted) == Str0x \o HexEncode(encrypted)

\* the string encrypt returns: 0x and the hex of salt and encrypted
encode(salt, encrypted) == Str0x \o HexEncode(salt \o encrypted)

\* encrypt(plaintext), with the salt that crypto.randomBytes(8) returned
encrypt(k, salt, plaintext) ==
    encode(salt, encryptBuffer(k, salt, Utf8Encode(plaintext)))

\* stripHexPrefix that drops two characters whatever they are
stripHexPrefixAlways(hexString) == Slice(hexString, 2)

\* the 0x prefix, if any, removed
stripHexPrefix(hexString) ==
    IF StartsWith(hexString, Str0x) THEN Slice(hexString, 2) ELSE hexString

\* decryptByte that rotates to the left, as encrypt does
decryptByteRotatesLeft(k, salt, encrypted, i) ==
    LET shift == (i % 7) + 1
        byte1 == BitAnd(BitOr(ShiftLeft(encrypted[i + 1], shift),
                              ShiftRight(encrypted[i + 1], 8 - shift)), 255)
        byte2 == BitXor(byte1, salt[(i % Len(salt)) + 1])
    IN  BitXor(byte2, k[(i % Len(k)) + 1])

\* decryptByte that leaves out the XOR with the key
decryptByteWithoutKey(k, salt, encrypted, i) ==
    LET shift == (i % 7) + 1
        byte1 == BitAnd(BitOr(ShiftRight(encrypted[i + 1], shift),
                              ShiftLeft(encrypted[i + 1], 8 - shift)), 255)
    IN  BitXor(byte1, salt[(i % Len(salt)) + 1])

\* decryptByte that does not look at the lowest bit of the cipher byte
decryptByteDropsLowBit(k, salt, encrypted, i) ==
    LET shift == (i % 7) + 1
        c == BitAnd(encrypted[i + 1], 254)
        byte1 == BitAnd(BitOr(ShiftRight(c, shift), ShiftLeft(c, 8 - shift)), 255)
        byte2 == BitXor(byte1, salt[(i % Len(salt)) + 1])
    IN  BitXor(byte2, k[(i % Len(k)) + 1])

\* one pass of the loop of decrypt, at position i (from 0)
decryptByte(k, salt, encrypted, i) ==
    LET shift == (i % 7) + 1
        byte1 == BitAnd(BitOr(ShiftRight(encrypted[i + 1], shift),
                              ShiftLeft(encrypted[i + 1], 8 - shift)), 255)
        byte2 == BitXor(byte1, salt[(i % Len(salt)) + 1])
    IN  BitXor(byte2, k[(i % Len(k)) + 1])

\* the buffer `data` of decrypt
decryptData(hexString) == HexDecode(stripHexPrefix(hexString))

\* decryptBuffer in which a byte also takes in the cipher byte before it
decryptBufferChained(k, hexString) ==
    LET data == decryptData(hexString)
        salt == Subarray0(data, SaltLen)
        encrypted == Slice(data, SaltLen)
    IN  [j \in 1..Len(encrypted) |->
            BitXor(decryptByte(k, salt, encrypted, j - 1),
                   IF j = 1 THEN 0 ELSE encrypted[j - 1])]

\* the buffer `decrypted` of decrypt
decryptBuffer(k, hexString) ==
    LET data == decryptData(hexString)
        salt == Subarray0(data, SaltLen)
        encrypted == Slice(data, SaltLen)
    IN  [j \in 1..Len(encrypted) |-> decryptByte(k, salt, encrypted, j - 1)]

\* decrypt(hexString)
decrypt(k, hexString) == Utf8Decode(decryptBuffer(k, hexString))

stringToHex(str) == Str0x \o HexEncode(Utf8Encode(str))

\* hexToString that takes every byte for one character
hexToStringLatin1(hex) == HexDecode(stripHexPrefix(hex))

hexToString(hex) == Utf8Decode(HexDecode(stripHexPrefix(hex)))

\* the chainData of encryptForChain, from the string encrypt returned
toChainTag(encrypted) == StrChainTag \o Slice(encrypted, 2)

\* fromChainTag that cuts after 0xEN, leaving C1 in front of the hex
fromChainTagShortCut(chainData) ==
    IF StartsWith(chainData, StrChainTag) THEN Str0x \o Slice(chainData, 4)
    ELSE chainData

\* fromChainTag that replaces the first six characters whatever they are
fromChainTagUnconditional(chainData) == Str0x \o Slice(chainData, 6)

\* the string decryptFromChain hands to decrypt
fromChainTag(chainData) ==
    IF StartsWith(chainData, StrChainTag) THEN Str0x \o Slice(chainData, 6)
    ELSE chainData

(***************************************************************************)
(* The inputs of the calls.                                                *)
(***************************************************************************)
MaxMsgs == 2

MaxPlainLen == 2

MaxRawLen == 4

\* the engines, each constructed from one of the secrets
Engines == {1, 2}

\* 'test', the secret of the specification's test vector, and
\* 'my_default_secret_key', the default of demo
Secrets ==
    { <<116, 101, 115, 116>>,
      <<109, 121, 95, 100, 101, 102, 97, 117, 108, 116, 95, 115, 101, 99, 114,
        101, 116, 95, 107, 101, 121>> }

\* every string of at most n code units of U
Strings(U, n) == UNION {[1..k -> U] : k \in 0..n}

\* H, e-acute (two bytes), a CJK character (three bytes), the two halves of a
\* surrogate pair (four bytes together, ill-formed alone) and U+FFFD
PlainUnits == {72, 233, 20013, 55357, 56832, 65533}

\* the messages of demo: 'Hello, Ethereum!', eight CJK characters,
\* 'Transfer 100 ETH to Alice', the JSON of a vote, 'Secret vote: Proposal
\* #42 = YES', 'Same message'
DemoMessages ==
    { <<72, 101, 108, 108, 111, 44, 32, 69, 116, 104, 101, 114, 101, 117, 109, 33>>,
      <<36825, 26159, 20013, 25991, 27979, 35797, 28040, 24687>>,
      <<84, 114, 97, 110, 115, 102, 101, 114, 32, 49, 48, 48, 32, 69, 84, 72, 32,
        116, 111, 32, 65, 108, 105, 99, 101>>,
      <<123, 34, 97, 99, 116, 105, 111, 110, 34, 58, 34, 118, 111, 116, 101, 34,
        44, 34, 112, 114, 111, 112, 111, 115, 97, 108, 34, 58, 52, 50, 44, 34, 99,
        104, 111, 105, 99, 101, 34, 58, 34, 121, 101, 115, 34, 125>>,
      <<83, 101, 99, 114, 101, 116, 32, 118, 111, 116, 101, 58, 32, 80, 114, 111,
        112, 111, 115, 97, 108, 32, 35, 52, 50, 32, 61, 32, 89, 69, 83>>,
      <<83, 97, 109, 101, 32, 109, 101, 115, 115, 97, 103, 101>> }

Plaintexts == Strings(PlainUnits, MaxPlainLen) \cup DemoMessages

\* plainMsg of demo, 'Hello World'
PlainMsg == <<72, 101, 108, 108, 111, 32, 87, 111, 114, 108, 100>>

\* '', 'Hi'
FewPlaintexts == { <<>>, <<72, 105>> }

\* 'Hi', 'Hello, Ethereum!' (16 bytes, past the turn of the shift and of the
\* salt) and the JSON of a vote (46 bytes, past the turn of the key)
LoopPlaintexts == {p \in FewPlaintexts \cup DemoMessages : Len(p) \in {2, 16, 46}}

\* values crypto.randomBytes(8) may return
Salts ==
    { <<0, 0, 0, 0, 0, 0, 0, 0>>,
      <<255, 255, 255, 255, 255, 255, 255, 255>>,
      <<222, 173, 190, 239, 1, 35, 69, 103>>,
      <<1, 2, 4, 8, 16, 32, 64, 128>> }

FewSalts == { <<0, 0, 0, 0, 0, 0, 0, 0>>, <<222, 173, 190, 239, 1, 35, 69, 103>> }

\* values Date.now() may return, as ticks
Times == {0, 1}

\* the strings the calls so far handed out
Wire ==
    {m.data : m \in BagToSet(msgs)}
      \cup {m.chainData : m \in {x \in BagToSet(msgs) : x.tagged}}

\* '0x1234'
FewRawStrings == { <<48, 120, 49, 50, 51, 52>> }

\* 0, x, 1, a, F, z
RawUnits == {48, 120, 49, 97, 70, 122}

\* an encoded message cut short, or with one character replaced by z or G
Truncations(h) == {SubSeq(h, 1, n) : n \in 0..Len(h)}

Substitutions(h) == {[h EXCEPT ![j] = c] : j \in 1..Len(h), c \in {122, 71}}

Variants(h) == Truncations(h) \cup Substitutions(h)

\* byte j (from 1) of an encoded message that starts with 0x
ByteAt(h, j) == (16 * Unhex(h[(2 * j) + 1])) + Unhex(h[(2 * j) + 2])

\* the encoded message with byte j set to v
ReplaceByte(h, j, v) ==
    [h EXCEPT ![(2 * j) + 1] = HexDigit(v \div 16), ![(2 * j) + 2] = HexDigit(v % 16)]

\* what may come back from the chain in place of the encoded message h: h
\* with one cipher byte set to any value, with one salt byte changed in its
\* lowest bit or in every bit, with every cipher byte inverted, or h cut
\* short after the salt and any number of its cipher bytes
Tamperings(h) ==
    LET bytes == (Len(h) - 2) \div 2
    IN  {ReplaceByte(h, j, v) : j \in (SaltLen + 1)..bytes, v \in 0..255}
          \cup {ReplaceByte(h, j, BitXor(ByteAt(h, j), x)) : j \in 1..SaltLen, x \in {1, 255}}
          \cup {[i \in 1..Len(h) |->
                    IF i > 2 + (2 * SaltLen) THEN HexDigit(15 - Unhex(h[i])) ELSE h[i]]}
          \cup {SubSeq(h, 1, 2 + (2 * n)) : n \in SaltLen..bytes}

\* 'Hi', U+FFFD, a CJK character and H, and plainMsg (11 bytes, past the turn
\* of the salt)
TamperedPlaintexts == { <<72, 105>>, <<65533>>, <<20013, 72>>, PlainMsg }

\* encoded messages of the engine of 'test': of 'Hi' under the salt of
\* zeros, 0x0000000000000000afbf; of the empty string under the salt
\* 0102040810204080; of a CJK character and A under the salt deadbeef01234567,
\* 0xdeadbeef012345674b4e1ef2
SampleMessages ==
    { <<48, 120>> \o [j \in 1..16 |-> 48] \o <<97, 102, 98, 102>>,
      <<48, 120, 48, 49, 48, 50, 48, 52, 48, 56, 49, 48, 50, 48, 52, 48, 56, 48>>,
      <<48, 120, 100, 101, 97, 100, 98, 101, 101, 102, 48, 49, 50, 51, 52, 53, 54, 55,
        52, 98, 52, 101, 49, 101, 102, 50>> }

\* what a caller may hand to decrypt, decryptFromChain and hexToString: every
\* short string of RawUnits, and the sample messages, bare, without 0x and
\* tagged, whole, cut short or with a character replaced
RawStrings ==
    Strings(RawUnits, MaxRawLen)
      \cup UNION {Variants(m) \cup Variants(Slice(m, 2)) \cup Variants(toChainTag(m))
                    : m \in SampleMessages}

(***************************************************************************)
(* The state: key[e] is this.key of engine e.  msgs and call are history:  *)
(* msgs is the bag of what encrypt and encryptForChain returned, each with *)
(* the salt it drew, and call is the last call, with its buffers and its   *)
(* result.  Engine 1 is built from 'test', engine 2 from either secret.    *)
(***************************************************************************)
Init ==
    /\ key \in {k \in [Engines -> {deriveKey(s) : s \in Secrets}] :
                  k[1] = deriveKey(<<116, 101, 115, 116>>)}
    /\ msgs = EmptyBag
    /\ call = [op |-> "none"]
    /\ rpcUrls = <<>>
    /\ provider = "undefined"
    /\ pc = "start"
    /\ urlIndex = 1
    /\ attempts = <<>>
    /\ step = 1
    /\ reads = <<>>
    /\ error = "none"

Encrypt(e, salt, plaintext) ==
    LET encrypted == encryptBuffer(key[e], salt, Utf8Encode(plaintext))
        data == encode(salt, encrypted)
    IN  /\ msgs' = msgs (+) SetToBag({[engine |-> e, plaintext |-> plaintext, salt |-> salt,
                                     data |-> data, tagged |-> FALSE,
                                     chainData |-> <<>>]})
        /\ call' = [op |-> "encrypt", engine |-> e, arg |-> plaintext, salt |-> salt,
                    encrypted |-> encrypted, outcome |-> "returned", ret |-> data]
        /\ UNCHANGED <<key, chainVars>>

EncryptForChain(e, salt, message, now) ==
    LET encrypted == encryptBuffer(key[e], salt, Utf8Encode(message))
        data == encode(salt, encrypted)
        ret == [data |-> data, chainData |-> toChainTag(data),
                originalLength |-> Len(message), timestamp |-> now]
    IN  /\ msgs' = msgs (+) SetToBag({[engine |-> e, plaintext |-> message, salt |-> salt,
                                     data |-> ret.data, tagged |-> TRUE,
                                     chainData |-> ret.chainData]})
        /\ call' = [op |-> "encryptForChain", engine |-> e, arg |-> message,
                    salt |-> salt, now |-> now, encrypted |-> encrypted,
                    outcome |-> "returned", ret |-> ret]
        /\ UNCHANGED <<key, chainVars>>

\* Decrypt that keeps the first byte of the message in the key
DecryptRekeys(e, hexString) ==
    LET decrypted == decryptBuffer(key[e], hexString)
        data == decryptData(hexString)
    IN  /\ call' = [op |-> "decrypt", engine |-> e, arg |-> hexString,
                    decrypted |-> decrypted,
                    outcome |-> "returned", ret |-> Utf8Decode(decrypted)]
        /\ key' = [key EXCEPT ![e][1] = IF data = <<>> THEN @ ELSE data[1]]
        /\ UNCHANGED <<msgs, chainVars>>

Decrypt(e, hexString) ==
    LET decrypted == decryptBuffer(key[e], hexString)
    IN  /\ call' = [op |-> "decrypt", engine |-> e, arg |-> hexString,
                    decrypted |-> decrypted,
                    outcome |-> "returned", ret |-> Utf8Decode(decrypted)]
        /\ UNCHANGED <<key, msgs, chainVars>>

DecryptFromChain(e, chainData) ==
    LET decrypted == decryptBuffer(key[e], fromChainTag(chainData))
    IN  /\ call' = [op |-> "decryptFromChain", engine |-> e, arg |-> chainData,
                    decrypted |-> decrypted,
                    outcome |-> "returned", ret |-> Utf8Decode(decrypted)]
        /\ UNCHANGED <<key, msgs, chainVars>>

StringToHex(str) ==
    /\ call' = [op |-> "stringToHex", arg |-> str, outcome |-> "returned",
                ret |-> stringToHex(str)]
    /\ UNCHANGED <<key, msgs, chainVars>>

HexToString(hex) ==
    /\ call' = [op |-> "hexToString", arg |-> hex, outcome |-> "returned",
                ret |-> hexToString(hex)]
    /\ UNCHANGED <<key, msgs, chainVars>>

\* a call of a method of engine e that throws before it returns anything:
\* encrypt and encryptForChain when crypto.randomBytes fails or the plaintext
\* is no string, decrypt and decryptFromChain when the argument is no string
Throws(e, method) ==
    /\ call' = [op |-> "threw", method |-> method, engine |-> e]
    /\ UNCHANGED <<key, msgs, chainVars>>

\* a call of stringToHex or hexToString with an argument that is no string
ThrowsStatic(method) ==
    /\ call' = [op |-> "threw", method |-> method]
    /\ UNCHANGED <<key, msgs, chainVars>>

(***************************************************************************)
(* readChainData.  pc is its position; attempts and reads are history:     *)
(* the endpoints tried so far, each with what came of it, and the requests *)
(* sent so far, each with the provider it went through.                    *)
(***************************************************************************)
\* the three endpoints that the list always holds
FallbackUrls ==
    << "https://ethereum-sepolia-rpc.publicnode.com",
       "https://rpc2.sepolia.org",
       "https://sepolia.gateway.tenderly.co" >>

\* what process.env.SEPOLIA_RPC_URL may hold: nothing, or an endpoint
EnvUrls == {"", "https://sepolia.example/rpc"}

\* what may come of one pass of the loop: the constructor of the provider
\* throws, the constructor returns and getNetwork rejects, or both succeed
Outcomes == {"constructorThrew", "getNetworkFailed", "connected"}

\* the requests after the loop, in the order of the source.  A request
\* whose failure is caught goes on at `recover`, any other failure rejects
\* readChainData (recover 0); a request that a condition guards may be
\* skipped to `skipTo`
ReadPlan ==
    << [method |-> "getNetwork", line |-> 64, recover |-> 0, skipTo |-> 0],
       [method |-> "getBlockNumber", line |-> 68, recover |-> 0, skipTo |-> 0],
       [method |-> "getFeeData", line |-> 71, recover |-> 0, skipTo |-> 0],
       [method |-> "getBlock", line |-> 77, recover |-> 0, skipTo |-> 0],
       [method |-> "getBalance", line |-> 92, recover |-> 0, skipTo |-> 0],
       [method |-> "getBalance", line |-> 99, recover |-> 0, skipTo |-> 7],
       [method |-> "getTransaction", line |-> 112, recover |-> 0, skipTo |-> 9],
       [method |-> "getTransactionReceipt", line |-> 123, recover |-> 0, skipTo |-> 9],
       [method |-> "name, symbol, decimals, totalSupply", line |-> 138,
        recover |-> 11, skipTo |-> 0],
       [method |-> "balanceOf", line |-> 151, recover |-> 11, skipTo |-> 0],
       [method |-> "queryFilter", line |-> 166, recover |-> 12, skipTo |-> 0],
       [method |-> "getBalance", line |-> 209, recover |-> 14, skipTo |-> 0],
       [method |-> "getBalance", line |-> 210, recover |-> 14, skipTo |-> 0] >>

\* the position after the request at n was dealt with
After(n) == IF n > Len(ReadPlan) THEN "done" ELSE "read"

\* the list of endpoints: the one of the environment, if set, then the rest
ReadEnv(envUrl) ==
    /\ pc = "start"
    /\ rpcUrls' = IF envUrl = "" THEN FallbackUrls ELSE <<envUrl>> \o FallbackUrls
    /\ pc' = "connect"
    /\ UNCHANGED <<key, msgs, call, provider, urlIndex, attempts, step, reads, error>>

\* one pass of the loop over rpcUrls: provider is assigned as soon as the
\* constructor returns, before getNetwork is awaited
TryRpc(outcome) ==
    /\ pc = "connect"
    /\ urlIndex <= Len(rpcUrls)
    /\ provider' = IF outcome = "constructorThrew" THEN provider ELSE rpcUrls[urlIndex]
    /\ attempts' = Append(attempts, [url |-> rpcUrls[urlIndex], outcome |-> outcome])
    /\ urlIndex' = urlIndex + 1
    /\ pc' = IF outcome = "connected" \/ urlIndex = Len(rpcUrls) THEN "check" ELSE "connect"
    /\ UNCHANGED <<key, msgs, call, rpcUrls, step, reads, error>>

\* if (!provider) throw
CheckProvider ==
    /\ pc = "check"
    /\ IF provider = "undefined"
         THEN pc' = "thrown" /\ error' = "all RPCs unavailable"
         ELSE pc' = "read" /\ error' = error
    /\ UNCHANGED <<key, msgs, call, rpcUrls, provider, urlIndex, attempts, step, reads>>

\* the next request goes out through provider, and succeeds or fails
ChainRead(ok) ==
    /\ pc = "read"
    /\ reads' = Append(reads, [via |-> provider, method |-> ReadPlan[step].method,
                               line |-> ReadPlan[step].line])
    /\ IF ok
         THEN step' = step + 1 /\ pc' = After(step + 1) /\ error' = error
         ELSE IF ReadPlan[step].recover = 0
           THEN step' = step /\ pc' = "thrown" /\ error' = "request failed"
           ELSE /\ step' = ReadPlan[step].recover
                /\ pc' = After(ReadPlan[step].recover)
                /\ error' = error
    /\ UNCHANGED <<key, msgs, call, rpcUrls, provider, urlIndex, attempts>>

\* the condition that guards the next request is false
SkipRead ==
    /\ pc = "read"
    /\ ReadPlan[step].skipTo # 0
    /\ step' = ReadPlan[step].skipTo
    /\ UNCHANGED <<key, msgs, call, rpcUrls, provider, pc, urlIndex, attempts, reads, error>>

\* any calls in any order, on a few inputs
Next ==
    \/ /\ BagCardinality(msgs) < MaxMsgs
       /\ \E e \in Engines, salt \in FewSalts, p \in FewPlaintexts : Encrypt(e, salt, p)
    \/ /\ BagCardinality(msgs) < MaxMsgs
       /\ \E e \in Engines, salt \in FewSalts, p \in FewPlaintexts, now \in Times :
            EncryptForChain(e, salt, p, now)
    \/ \E e \in Engines, h \in Wire \cup FewRawStrings : Decrypt(e, h)
    \/ \E e \in Engines, h \in Wire \cup FewRawStrings : DecryptFromChain(e, h)
    \/ \E p \in FewPlaintexts : StringToHex(p)
    \/ \E h \in FewRawStrings \cup {stringToHex(p) : p \in FewPlaintexts} : HexToString(h)
    \/ \E e \in Engines,
          method \in {"encrypt", "encryptForChain", "decrypt", "decryptFromChain"} :
            Throws(e, method)
    \/ \E method \in {"stringToHex", "hexToString"} : ThrowsStatic(method)

Spec == Init /\ [][Next]_vars

\* one message of any plaintext under any salt, then one call that decrypts
\* it, on either engine
NextRoundTrip ==
    \/ /\ call.op = "none"
       /\ \E e \in Engines, salt \in Salts, p \in Plaintexts : Encrypt(e, salt, p)
    \/ /\ call.op = "none"
       /\ \E e \in Engines, salt \in Salts, p \in Plaintexts, now \in Times :
            EncryptForChain(e, salt, p, now)
    \/ /\ call.op \in {"encrypt", "encryptForChain"}
       /\ \E e \in Engines, h \in Wire : Decrypt(e, h)
    \/ /\ call.op \in {"encrypt", "encryptForChain"}
       /\ \E e \in Engines, h \in Wire : DecryptFromChain(e, h)

SpecRoundTrip == Init /\ [][NextRoundTrip]_vars

\* one call that decodes whatever string a caller hands in
NextDecode ==
    \/ /\ call.op = "none"
       /\ \E e \in Engines, h \in RawStrings : Decrypt(e, h)
    \/ /\ call.op = "none"
       /\ \E e \in Engines, h \in RawStrings : DecryptFromChain(e, h)
    \/ /\ call.op = "none"
       /\ \E h \in RawStrings : HexToString(h)

SpecDecode == Init /\ [][NextDecode]_vars

\* on an engine that may have encrypted a message, stringToHex of any text and
\* then hexToString of what it returned
NextHex ==
    \/ /\ call.op = "none"
       /\ \E e \in Engines, salt \in FewSalts, p \in FewPlaintexts : Encrypt(e, salt, p)
    \/ /\ call.op \in {"none", "encrypt"}
       /\ \E str \in Plaintexts \cup {PlainMsg} : StringToHex(str)
    \/ /\ call.op = "stringToHex"
       /\ HexToString(call.ret)

SpecHex == Init /\ [][NextHex]_vars

\* calls of encrypt alone, the random source made to return known salts
NextEncrypt ==
    /\ BagCardinality(msgs) < MaxMsgs
    /\ \E e \in Engines, salt \in FewSalts, p \in LoopPlaintexts : Encrypt(e, salt, p)

SpecEncrypt == Init /\ [][NextEncrypt]_vars

\* one message, then decrypt of what a third party made of it
NextTamper ==
    \/ /\ call.op = "none"
       /\ \E e \in Engines, salt \in FewSalts, p \in TamperedPlaintexts : Encrypt(e, salt, p)
    \/ /\ call.op = "encrypt"
       /\ \E h \in Tamperings(call.ret) : Decrypt(call.engine, h)

SpecTamper == Init /\ [][NextTamper]_vars

\* one run of readChainData
NextChain ==
    \/ \E envUrl \in EnvUrls : ReadEnv(envUrl)
    \/ \E outcome \in Outcomes : TryRpc(outcome)
    \/ CheckProvider
    \/ \E ok \in BOOLEAN : ChainRead(ok)
    \/ SkipRead

SpecChain == Init /\ [][NextChain]_vars
(***************************************************************************)
(* Vocabulary of the properties.                                           *)
(***************************************************************************)
Msgs == BagToSet(msgs)

\* no surrogate stands alone: the string is text that UTF-8 can carry
WellFormed(str) ==
    \A i \in 1..Len(str) :
        /\ IsHighSurrogate(str[i]) => (i < Len(str) /\ IsLowSurrogate(str[i + 1]))
        /\ IsLowSurrogate(str[i]) => (i > 1 /\ IsHighSurrogate(str[i - 1]))

\* the number of UTF-8 bytes of a string, counted unit by unit: a unit below
\* 0x80 takes one byte, one below 0x800 two, each half of a surrogate pair two,
\* any other unit (a lone surrogate included) three
Utf8Len(str) ==
    LET paired(i) ==
            \/ IsHighSurrogate(str[i]) /\ i < Len(str) /\ IsLowSurrogate(str[i + 1])
            \/ IsLowSurrogate(str[i]) /\ i > 1 /\ IsHighSurrogate(str[i - 1])
        cost(i) == IF str[i] < 128 THEN 1
                   ELSE IF str[i] < 2048 \/ paired(i) THEN 2
                   ELSE 3
        sum[i \in 0..Len(str)] == IF i = 0 THEN 0 ELSE sum[i - 1] + cost(i)
    IN  sum[Len(str)]

\* the characters 0..9 and a..f
LowerHexChars == (48..57) \cup (97..102)

\* the last call decrypted, with the key of the engine that made m, the string
\* that encrypt returned for m
DecryptOf(m) ==
    /\ call.op = "decrypt"
    /\ call.arg = m.data
    /\ key[call.engine] = key[m.engine]

\* the last call took the chainData of m through decryptFromChain, with the
\* key of the engine that made m
DecryptFromChainOf(m) ==
    /\ call.op = "decryptFromChain"
    /\ m.tagged
    /\ call.arg = m.chainData
    /\ key[call.engine] = key[m.engine]

(***************************************************************************)
(* C1.  decrypt undoes encrypt: whatever the key, the salt and the         *)
(* plaintext, decrypt of the string encrypt returned recovers exactly the  *)
(* bytes of the plaintext, and returns the plaintext itself when it is     *)
(* well-formed text.                                                       *)
(***************************************************************************)
C1_DecryptInvertsEncrypt ==
    \A m \in Msgs :
        DecryptOf(m) =>
            /\ call.outcome = "returned"
            /\ call.decrypted = Utf8Encode(m.plaintext)
            /\ Utf8Encode(call.ret) = Utf8Encode(m.plaintext)
            /\ WellFormed(m.plaintext) => call.ret = m.plaintext

\* a plaintext longer than the key, so that every index wraps, came back
C1_Witness ==
    \E m \in Msgs :
        /\ DecryptOf(m)
        /\ Len(call.decrypted) > 32
        /\ call.ret = m.plaintext

\* the empty plaintext came back
C1_WitnessEmpty ==
    \E m \in Msgs : DecryptOf(m) /\ m.plaintext = <<>> /\ call.ret = <<>>

(***************************************************************************)
(* C2.  Round trip through the chain tag: decryptFromChain of the          *)
(* chainData that encryptForChain returned gives back the message, for     *)
(* every well-formed message, the empty one and multi-byte text included.  *)
(***************************************************************************)
C2_ChainRoundTrip ==
    \A m \in Msgs :
        (DecryptFromChainOf(m) /\ WellFormed(m.plaintext)) =>
            /\ call.outcome = "returned"
            /\ call.ret = m.plaintext

\* a message of multi-byte characters came back through the tag
C2_Witness ==
    \E m \in Msgs :
        /\ DecryptFromChainOf(m)
        /\ Len(m.plaintext) > 0
        /\ Utf8Len(m.plaintext) > Len(m.plaintext)
        /\ WellFormed(m.plaintext)
        /\ call.ret = m.plaintext

(***************************************************************************)
(* C7.  The shape of what encrypt returns for a plaintext of n UTF-8       *)
(* bytes: 2 + 2 * (8 + n) characters, namely 0x, the 16 lowercase hex      *)
(* digits of the salt and the 2n lowercase hex digits of the cipher; the   *)
(* cipher has n bytes, each in 0..255.                                     *)
(***************************************************************************)
C7_EncodedShape ==
    call.op \in {"encrypt", "encryptForChain"} =>
        LET n == Utf8Len(call.arg)
            out == IF call.op = "encrypt" THEN call.ret ELSE call.ret.data
        IN  /\ Len(out) = 2 + (2 * (8 + n))
            /\ SubSeq(out, 1, 2) = <<48, 120>>
            /\ \A j \in 3..Len(out) : out[j] \in LowerHexChars
            /\ \A j \in 1..8 :
                 (16 * Unhex(out[(2 * j) + 1])) + Unhex(out[(2 * j) + 2]) = call.salt[j]
            /\ Len(call.encrypted) = n
            /\ \A j \in 1..n :
                 /\ call.encrypted[j] \in 0..255
                 /\ (16 * Unhex(out[(2 * j) + 17])) + Unhex(out[(2 * j) + 18])
                      = call.encrypted[j]

\* a plaintext whose bytes outnumber its characters was encrypted
C7_Witness ==
    /\ call.op = "encrypt"
    /\ Len(call.arg) = 8
    /\ Len(call.ret) = 66

(***************************************************************************)
(* C9.  The chain tag wraps and unwraps without loss: chainData is the     *)
(* encoded message with 0xENC1 in place of 0x, unwrapping it gives the     *)
(* encoded message again, and a string that does not start with 0xENC1     *)
(* goes to decrypt unchanged, so that decryptFromChain on a bare hex       *)
(* string is decrypt on it.                                                *)
(***************************************************************************)
C9_TagInverse ==
    /\ \A m \in Msgs :
         m.tagged =>
            /\ m.chainData = <<48, 120, 69, 78, 67, 49>> \o Slice(m.data, 2)
            /\ fromChainTag(m.chainData) = m.data
    /\ (call.op = "decryptFromChain" /\ ~StartsWith(call.arg, <<48, 120, 69, 78, 67, 49>>)) =>
            /\ call.decrypted = decryptBuffer(key[call.engine], call.arg)
            /\ call.ret = decrypt(key[call.engine], call.arg)

\* decryptFromChain took the bare string of a tagged message and gave its text
C9_Witness ==
    \E m \in Msgs :
        /\ m.tagged
        /\ call.op = "decryptFromChain"
        /\ call.arg = m.data
        /\ Len(call.ret) > 0
        /\ call.ret = m.plaintext
(***************************************************************************)
(* More vocabulary: what a decoder that validates would reject.            *)
(***************************************************************************)
\* the string after its optional 0x
HexBody(h) == IF StartsWith(h, <<48, 120>>) THEN SubSeq(h, 3, Len(h)) ELSE h

\* the characters 0..9, A..F and a..f
HexChars == (48..57) \cup (65..70) \cup (97..102)

\* the body is an even number of hex digits
CleanHex(h) ==
    /\ Len(HexBody(h)) % 2 = 0
    /\ \A j \in 1..Len(HexBody(h)) : HexBody(h)[j] \in HexChars

\* the bytes from index i on are well-formed UTF-8 (Unicode, table 3-7)
RECURSIVE Utf8ValidFrom(_, _)
Utf8ValidFrom(buf, i) ==
    IF i > Len(buf) THEN TRUE
    ELSE LET c == buf[i]
             cont(j, lo, hi) == j <= Len(buf) /\ buf[j] >= lo /\ buf[j] <= hi
         IN  IF c <= 127 THEN Utf8ValidFrom(buf, i + 1)
             ELSE IF c >= 194 /\ c <= 223
               THEN cont(i + 1, 128, 191) /\ Utf8ValidFrom(buf, i + 2)
             ELSE IF c >= 224 /\ c <= 239
               THEN /\ cont(i + 1, IF c = 224 THEN 160 ELSE 128, IF c = 237 THEN 159 ELSE 191)
                    /\ cont(i + 2, 128, 191)
                    /\ Utf8ValidFrom(buf, i + 3)
             ELSE IF c >= 240 /\ c <= 244
               THEN /\ cont(i + 1, IF c = 240 THEN 144 ELSE 128, IF c = 244 THEN 143 ELSE 191)
                    /\ cont(i + 2, 128, 191)
                    /\ cont(i + 3, 128, 191)
                    /\ Utf8ValidFrom(buf, i + 4)
             ELSE FALSE

Utf8Valid(buf) == Utf8ValidFrom(buf, 1)

(***************************************************************************)
(* C3.  decrypt fails with a DecodeError when the hex string decodes to    *)
(* fewer than 8 bytes, too few to hold a salt, and returns no plaintext.   *)
(***************************************************************************)
C3_ShortInputRejected ==
    (call.op = "decrypt" /\ CleanHex(call.arg) /\ Len(HexBody(call.arg)) < 16) =>
        call.outcome = "DecodeError"

(***************************************************************************)
(* C4.  decrypt fails with a DecodeError when the string after the         *)
(* optional 0x has odd length or holds a character that is no hex digit,   *)
(* wherever it stands; nothing is returned from the valid part.            *)
(***************************************************************************)
C4_MalformedHexRejected ==
    (call.op = "decrypt" /\ ~CleanHex(call.arg)) => call.outcome = "DecodeError"

\* the part of C4 on partial results: malformed hex never yields text
C4_NoPartialResult ==
    (call.op = "decrypt" /\ ~CleanHex(call.arg)) => Len(call.ret) = 0

(***************************************************************************)
(* C8.  decryptFromChain fails with a DecodeError, and returns no string,  *)
(* when the bytes the transform recovered are not valid UTF-8.             *)
(***************************************************************************)
C8_InvalidUtf8Rejected ==
    (call.op = "decryptFromChain" /\ ~Utf8Valid(call.decrypted)) =>
        call.outcome = "DecodeError"

(***************************************************************************)
(* C10.  The 0x prefix is optional: decrypt and hexToString give the same  *)
(* result for H and for 0x followed by H, whatever string of hex digits    *)
(* (or of anything else that does not itself start with 0x) H is.          *)
(***************************************************************************)
C10_PrefixOptional ==
    LET h == call.arg
        bare == ~StartsWith(h, <<48, 120>>)
        prefixed == StartsWith(h, <<48, 120>>) /\ ~StartsWith(SubSeq(h, 3, Len(h)), <<48, 120>>)
    IN  /\ call.op = "decrypt" =>
            /\ bare => call.ret = decrypt(key[call.engine], <<48, 120>> \o h)
            /\ prefixed => call.ret = decrypt(key[call.engine], SubSeq(h, 3, Len(h)))
        /\ call.op = "hexToString" =>
            /\ bare => call.ret = hexToString(<<48, 120>> \o h)
            /\ prefixed => call.ret = hexToString(SubSeq(h, 3, Len(h)))

\* decrypt got a message without its 0x and returned its text
C10_Witness ==
    /\ call.op = "decrypt"
    /\ ~StartsWith(call.arg, <<48, 120>>)
    /\ CleanHex(call.arg)
    /\ Len(call.ret) > 0
(***************************************************************************)
(* C5.  A message of one engine decrypted by an engine whose key differs.  *)
(***************************************************************************)
\* the last call decrypted, on an engine with another key than the engine
\* that made m, the string returned for m (or, through decryptFromChain, its
\* chainData)
CrossKeyDecryptOf(m) ==
    /\ \/ call.op \in {"decrypt", "decryptFromChain"} /\ call.arg = m.data
       \/ call.op = "decryptFromChain" /\ m.tagged /\ call.arg = m.chainData
    /\ key[call.engine] # key[m.engine]

\* the two keys differ at a position that a plaintext of n bytes uses
KeysDifferWithin(k1, k2, n) ==
    \E i \in 1..n : k1[((i - 1) % Len(k1)) + 1] # k2[((i - 1) % Len(k2)) + 1]

\* C5 as the specification states it: with a different key, decryption never
\* returns the plaintext
C5_WrongKeyNeverReturnsPlaintext ==
    \A m \in Msgs : CrossKeyDecryptOf(m) => call.ret # m.plaintext

\* C5 as amended: with a different key, byte i of what is recovered is the
\* plaintext byte XOR the two key bytes at i mod 32.  So the empty plaintext
\* (and any whose bytes meet only equal key bytes) is returned as it is, and
\* where the keys differ within the plaintext's length the bytes differ, and so
\* does the returned string when the plaintext holds no U+FFFD
C5_WrongKeyXorsTheKeys ==
    \A m \in Msgs :
        CrossKeyDecryptOf(m) =>
            LET pb == Utf8Encode(m.plaintext)
                k1 == key[m.engine]
                k2 == key[call.engine]
            IN  /\ call.outcome = "returned"
                /\ Len(call.decrypted) = Len(pb)
                /\ \A i \in 1..Len(pb) :
                     call.decrypted[i] =
                        BitXor(pb[i], BitXor(k1[((i - 1) % 32) + 1], k2[((i - 1) % 32) + 1]))
                /\ ~KeysDifferWithin(k1, k2, Len(pb)) =>
                     Utf8Encode(call.ret) = pb
                /\ KeysDifferWithin(k1, k2, Len(pb)) =>
                     /\ call.decrypted # pb
                     /\ (\A j \in 1..Len(m.plaintext) : m.plaintext[j] # 65533) =>
                          call.ret # m.plaintext

\* a message longer than the key came back as another string under the other key
C5_Witness ==
    \E m \in Msgs :
        /\ CrossKeyDecryptOf(m)
        /\ Len(call.decrypted) > 32
        /\ call.ret # m.plaintext

(***************************************************************************)
(* C6.  Repeated encryption of one plaintext on one engine.                *)
(***************************************************************************)
\* m1 and m2 come from two calls, on one engine, with one plaintext
TwoCallsSamePlaintext(m1, m2) ==
    /\ m1 \in Msgs
    /\ m2 \in Msgs
    /\ m1 # m2 \/ CopiesIn(m1, msgs) > 1
    /\ m1.engine = m2.engine
    /\ m1.plaintext = m2.plaintext

BytesSpelled(h) ==
    [j \in 1..((Len(h) - 2) \div 2) |->
        (16 * Unhex(h[(2 * j) + 1])) + Unhex(h[(2 * j) + 2])]

C11_StringToHexShape ==
    call.op = "stringToHex" =>
        /\ call.outcome = "returned"
        /\ Len(call.ret) = 2 + (2 * Utf8Len(call.arg))
        /\ SubSeq(call.ret, 1, 2) = <<48, 120>>
        /\ \A j \in 3..Len(call.ret) : call.ret[j] \in LowerHexChars
        /\ Utf8Valid(BytesSpelled(call.ret))
        /\ WellFormed(call.arg) => Utf8Decode(BytesSpelled(call.ret)) = call.arg

C11_RoundTripStep ==
    (call.op = "stringToHex" /\ call'.op = "hexToString" /\ call'.arg = call.ret
       /\ WellFormed(call.arg)) =>
        (call'.outcome = "returned" /\ call'.ret = call.arg)

C11_HelperFrame ==
    call'.op \in {"stringToHex", "hexToString"} => (key' = key /\ msgs' = msgs)

\* C11: the shape of stringToHex, the round trip through hexToString, and
\* the frame of both helpers, in every step of every behaviour
C11_HexHelpersLossless ==
    /\ []C11_StringToHexShape
    /\ [][C11_RoundTripStep /\ C11_HelperFrame]_vars

\* hexToString gave back a text of multi-byte characters from the hex that
\* stringToHex made of it, on an engine that holds a message
C11_Witness ==
    /\ call.op = "hexToString"
    /\ msgs # EmptyBag
    /\ Len(call.ret) = 8
    /\ Utf8Len(call.ret) = 24
    /\ call.arg = stringToHex(call.ret)

\* b rotated left by s within 8 bits, by arithmetic
Rotl8(b, s) == ((b * Pow2(s)) % 256) + (b \div Pow2(8 - s))

(***************************************************************************)
(* C12.  encrypt by hand: with the salt fixed, cipher byte i is the        *)
(* plaintext byte XOR key[i mod 32] XOR salt[i mod 8], rotated left within *)
(* 8 bits by (i mod 7) + 1, an amount in 1..7; two calls with one salt,    *)
(* key and plaintext return one string; and with the key of 'test' (first  *)
(* bytes 9f 86), the plaintext 'Hi' and the salt of zeros the string is    *)
(* 0x0000000000000000afbf.                                                 *)
(***************************************************************************)
C12_CipherByHand ==
    /\ key[1][1] = 159 /\ key[1][2] = 134
    /\ call.op = "encrypt" =>
         LET pb == Utf8Encode(call.arg)
             k == key[call.engine]
         IN  /\ Len(k) = 32
             /\ Len(call.encrypted) = Len(pb)
             /\ \A i \in 0..(Len(pb) - 1) :
                  /\ (i % 7) + 1 \in 1..7
                  /\ call.encrypted[i + 1] =
                       Rotl8(BitXor(BitXor(pb[i + 1], k[(i % 32) + 1]),
                                    call.salt[(i % 8) + 1]),
                             (i % 7) + 1)
    /\ \A m1 \in Msgs, m2 \in Msgs :
         (key[m1.engine] = key[m2.engine] /\ m1.salt = m2.salt
            /\ m1.plaintext = m2.plaintext) => m1.data = m2.data
    /\ \A m \in Msgs :
         (m.engine = 1 /\ m.plaintext = <<72, 105>> /\ m.salt = [j \in 1..8 |-> 0]) =>
            m.data = <<48, 120>> \o [j \in 1..16 |-> 48] \o <<97, 102, 98, 102>>

\* 'Hi' was encrypted twice by the engine of 'test' under the salt of zeros
C12_Witness ==
    \E m \in Msgs :
        /\ m.engine = 1 /\ m.plaintext = <<72, 105>> /\ m.salt = [j \in 1..8 |-> 0]
        /\ CopiesIn(m, msgs) = 2
        /\ call.op = "encrypt" /\ call.ret = m.data

\* a plaintext longer than the key was encrypted after another message
C12_WitnessLong ==
    /\ call.op = "encrypt"
    /\ Len(call.encrypted) > 32
    /\ BagCardinality(msgs) = 2

(***************************************************************************)
(* C13.  The key of an engine never changes, and a call's result comes     *)
(* from its inputs alone.                                                  *)
(***************************************************************************)
\* the calls c and d are calls of one operation with the same argument, on
\* engines of one key where the operation uses an engine, and with the same
\* salt drawn where it draws one
SameInputs(c, d) ==
    /\ c.op \in {"encrypt", "encryptForChain", "decrypt", "decryptFromChain",
                  "stringToHex", "hexToString"}
    /\ d.op = c.op
    /\ d.arg = c.arg
    /\ c.op \notin {"stringToHex", "hexToString"} => key[d.engine] = key[c.engine]
    /\ c.op \in {"encrypt", "encryptForChain"} => d.salt = c.salt

\* what the last call returned, computed again from its inputs, the key of
\* its engine, the salt it drew and, for encryptForChain, the clock it read
ResultFromInputs ==
    /\ call.op = "encrypt" => call.ret = encrypt(key[call.engine], call.salt, call.arg)
    /\ call.op = "encryptForChain" =>
         call.ret = [data |-> encrypt(key[call.engine], call.salt, call.arg),
                     chainData |-> toChainTag(encrypt(key[call.engine], call.salt, call.arg)),
                     originalLength |-> Len(call.arg),
                     timestamp |-> call.now]
    /\ call.op = "decrypt" => call.ret = decrypt(key[call.engine], call.arg)
    /\ call.op = "decryptFromChain" =>
         call.ret = decrypt(key[call.engine], fromChainTag(call.arg))
    /\ call.op = "stringToHex" => call.ret = stringToHex(call.arg)
    /\ call.op = "hexToString" => call.ret = hexToString(call.arg)

\* C13 as the specification states it: no call changes a key, and two calls
\* in a row with the same inputs, key and salt return the same
C13_ResultFromInputsKeySalt ==
    [][/\ key' = key
       /\ SameInputs(call, call') => call'.ret = call.ret]_vars

\* C13 as amended: no call changes a key, one that throws included; every
\* result is a function of the inputs, the key, the salt drawn and, for
\* encryptForChain, of the clock, whose reading is the timestamp: two calls
\* in a row with the same inputs, key and salt return the same but for that
C13_KeyFixedResultFromInputs ==
    /\ []ResultFromInputs
    /\ [][/\ key' = key
          /\ (SameInputs(call, call') /\ call.op # "encryptForChain") =>
               call'.ret = call.ret
          /\ (SameInputs(call, call') /\ call.op = "encryptForChain") =>
               /\ call'.ret.data = call.ret.data
               /\ call'.ret.chainData = call.ret.chainData
               /\ call'.ret.originalLength = call.ret.originalLength
               /\ call'.now = call.now => call'.ret = call.ret]_vars

\* after two messages, one of them from this engine, a call of decrypt threw
\* on the engine of 'test', whose key still starts 9f 86
C13_Witness ==
    /\ call.op = "threw"
    /\ call.method = "decrypt"
    /\ call.engine = 1
    /\ BagCardinality(msgs) = 2
    /\ \E m \in Msgs : m.engine = 1
    /\ key[1][1] = 159 /\ key[1][2] = 134

\* a message was decrypted by its engine after another message was made
C13_WitnessDecrypt ==
    \E m \in Msgs :
        /\ DecryptOf(m)
        /\ BagCardinality(msgs) = 2
        /\ Len(call.ret) > 0
        /\ call.ret = m.plaintext

(***************************************************************************)
(* C14 and C16: a message that was changed or cut on its way to decrypt.   *)
(***************************************************************************)
\* the last call decrypted, with the key of the engine that made m, a string
\* of the length of m's, of clean hex after 0x
DecryptOfSameLength(m) ==
    /\ call.op = "decrypt"
    /\ key[call.engine] = key[m.engine]
    /\ Len(call.arg) = Len(m.data)
    /\ StartsWith(call.arg, <<48, 120>>)
    /\ CleanHex(call.arg)

\* the bytes at which the string handed to decrypt differs from m's
ChangedBytes(m) ==
    {j \in 1..((Len(m.data) - 2) \div 2) :
        BytesSpelled(call.arg)[j] # BytesSpelled(m.data)[j]}

\* a cipher byte, or a salt byte that the plaintext of m is long enough to
\* use, was changed
TamperedOf(m) ==
    /\ DecryptOfSameLength(m)
    /\ \E j \in ChangedBytes(m) : j > 8 \/ j <= ((Len(m.data) - 2) \div 2) - 8

\* no unit of the string is U+FFFD
NoReplacementChar(str) == \A j \in 1..Len(str) : str[j] # 65533

C14_WitnessSameText ==
    \E m \in Msgs :
        /\ TamperedOf(m)
        /\ m.plaintext = <<65533>>
        /\ call.ret = m.plaintext

\* b rotated right by s within 8 bits, by arithmetic
Rotr8(b, s) == (b \div Pow2(s)) + ((b % Pow2(s)) * Pow2(8 - s))

(***************************************************************************)
(* C16.  The transform works byte by byte: byte i of what decrypt recovers *)
(* is cipher byte i rotated right by (i mod 7) + 1, XOR salt[i mod 8], XOR *)
(* key[i mod 32].  So a change of cipher byte j alone changes recovered    *)
(* byte j and no other, and the message cut to its salt and its first k    *)
(* cipher bytes decrypts to the first k bytes of the plaintext.            *)
(***************************************************************************)
C16_PositionLocal ==
    /\ (call.op = "decrypt" /\ StartsWith(call.arg, <<48, 120>>) /\ CleanHex(call.arg)
          /\ Len(call.arg) >= 18) =>
         LET data == BytesSpelled(call.arg)
             k == key[call.engine]
         IN  /\ Len(call.decrypted) = Len(data) - 8
             /\ \A i \in 0..(Len(data) - 9) :
                  call.decrypted[i + 1] =
                     BitXor(BitXor(Rotr8(data[i + 9], (i % 7) + 1), data[(i % 8) + 1]),
                            k[(i % 32) + 1])
    /\ \A m \in Msgs :
         (DecryptOfSameLength(m) /\ ChangedBytes(m) \subseteq 9..((Len(m.data) - 2) \div 2)) =>
            \A i \in 1..Len(call.decrypted) :
                (call.decrypted[i] # Utf8Encode(m.plaintext)[i]) <=> (i + 8 \in ChangedBytes(m))
    /\ \A m \in Msgs :
         \A n \in 0..Len(Utf8Encode(m.plaintext)) :
            (call.op = "decrypt" /\ key[call.engine] = key[m.engine]
               /\ call.arg = SubSeq(m.data, 1, 18 + (2 * n))) =>
                call.decrypted = SubSeq(Utf8Encode(m.plaintext), 1, n)

\* a message of 11 bytes cut after its 9th came back as the first 9 bytes
C16_Witness ==
    \E m \in Msgs :
        /\ call.op = "decrypt"
        /\ Len(m.data) = 40
        /\ call.arg = SubSeq(m.data, 1, 36)
        /\ call.decrypted = SubSeq(Utf8Encode(m.plaintext), 1, 9)

\* one cipher byte of a message was changed, and one recovered byte with it
C16_WitnessOneByte ==
    \E m \in Msgs :
        /\ DecryptOfSameLength(m)
        /\ ChangedBytes(m) = {18}
        /\ call.decrypted[10] # Utf8Encode(m.plaintext)[10]
        /\ \A i \in 1..9 : call.decrypted[i] = Utf8Encode(m.plaintext)[i]

(***************************************************************************)
(* C15.  readChainData and the endpoints it tries.                         *)
(***************************************************************************)
\* the loop over rpcUrls is over
LoopOver == pc \in {"check", "read", "done", "thrown"}

\* the endpoints whose connection test succeeded
Connected == {attempts[i].url : i \in {j \in 1..Len(attempts) : attempts[j].outcome = "connected"}}

\* the connection test was made for every endpoint of the list, and failed
EveryTestFailed ==
    /\ LoopOver
    /\ Len(attempts) = Len(rpcUrls)
    /\ \A i \in 1..Len(attempts) : attempts[i].outcome = "getNetworkFailed"

\* the part of C15 on the order: the endpoints are tried in the order of the
\* list, the loop ends at the first whose test succeeds, and that one is the
\* provider from then on
C15_FirstWorkingUrlUsed ==
    /\ Len(attempts) <= Len(rpcUrls)
    /\ \A i \in 1..Len(attempts) :
         /\ attempts[i].url = rpcUrls[i]
         /\ attempts[i].outcome = "connected" =>
              (i = Len(attempts) /\ LoopOver /\ provider = rpcUrls[i])
    /\ (LoopOver /\ Connected = {}) => Len(attempts) = Len(rpcUrls)

\* C15: the endpoints are tried in order up to the first whose connection
\* test succeeds; when the test failed for every endpoint, readChainData
\* throws 'all RPCs unavailable' and sends no request; and no request ever
\* goes through a provider whose connection test failed
C15_NoReadThroughFailedProvider ==
    /\ C15_FirstWorkingUrlUsed
    /\ (EveryTestFailed /\ pc # "check") =>
         (pc = "thrown" /\ error = "all RPCs unavailable" /\ reads = <<>>)
    /\ \A i \in 1..Len(reads) : reads[i].via \in Connected

\* what the code does when every test failed: the provider of the last
\* endpoint stays assigned, nothing is thrown for it, and the requests go
\* through it
C15_LastFailedProviderUsed ==
    (EveryTestFailed /\ pc # "check") =>
        /\ provider = rpcUrls[Len(rpcUrls)]
        /\ error # "all RPCs unavailable"
        /\ \A i \in 1..Len(reads) : reads[i].via = provider

\* every test failed, and the run went on to the end through the provider
\* of the last endpoint
C15_WitnessReadsAfterFailures ==
    /\ EveryTestFailed
    /\ pc = "done"
    /\ Len(reads) >= 5
    /\ reads[1].via = rpcUrls[Len(rpcUrls)]
====
